---- MODULE Spec2Model ----
(***************************************************************************)
(* LoopBackWallet (packages/composer-rest-server/lib/loopbackwallet.js):   *)
(* a Wallet whose credentials live in the `data` object of one             *)
(* WalletIdentity record of a LoopBack data source.                        *)
(*                                                                         *)
(* Every method is `findOne(filter).then(callback)`; the callback of a     *)
(* mutator ends in `identity.save()`.  A call is therefore modelled in     *)
(* three steps: the call itself (the filter is built from the adapter's    *)
(* fields and the query is issued), the resolution of findOne together     *)
(* with the callback that runs on its result, and, for a mutator, the      *)
(* resolution of save().  Calls of different processes interleave between  *)
(* these steps, as promise callbacks do.                                   *)
(***************************************************************************)
EXTENDS Integers, Sequences, FiniteSets, TLC

\* ------------------------------------------------------------------ bounds

\* Largest number of WalletIdentity records the data source holds.
MaxRecords == 2
\* Number of calls that may be in flight at once.
MaxProcs == 2
\* Number of calls made in one behaviour in which calls overlap.
MaxCalls == 2

WalletIds == {1, 2}
EnrollmentIDs == {"alice", "bob"}
\* Credential names the callers use.  "hasOwnProperty" is a property every
\* plain object inherits, "__proto__" the accessor of Object.prototype.
Names == {"a", "hasOwnProperty", "__proto__"}
\* Credential values (strings).
Values == {"x", "y"}
Procs == 1 .. MaxProcs

\* ------------------------------------------------- JavaScript: plain objects

Undefined == "undefined"
\* The value of data['__proto__'] when data has no own property of that name.
ObjectPrototype == "[object Object.prototype]"
\* Names a plain object inherits from Object.prototype (besides __proto__).
ObjectPrototypeKeys ==
    {"constructor", "hasOwnProperty", "isPrototypeOf", "propertyIsEnumerable",
     "toLocaleString", "toString", "valueOf"}
Builtin(name) == "[Function: " \o name \o "]"

\* A `data` object is a function from its own keys to their values.
EmptyData == [n \in {} |-> Undefined]

\* data[name]: the own property, else what the prototype chain gives.
GetProperty(data, name) ==
    IF name \in DOMAIN data THEN data[name]
    ELSE IF name = "__proto__" THEN ObjectPrototype
    ELSE IF name \in ObjectPrototypeKeys THEN Builtin(name)
    ELSE Undefined

\* data[name] = value, value a string.  Without an own property of that name,
\* '__proto__' reaches the setter of Object.prototype, which ignores a value
\* that is neither an object nor null: no own property is created.
SetProperty(data, name, value) ==
    IF name = "__proto__" /\ name \notin DOMAIN data THEN data
    ELSE [n \in DOMAIN data \cup {name} |-> IF n = name THEN value ELSE data[n]]

\* delete data[name]: removes an own property, nothing else.
DeleteProperty(data, name) ==
    [n \in DOMAIN data \ {name} |-> data[n]]

\* UTF-16 code units of the names in use.
CodeUnits(s) ==
    CASE s = "a" -> <<97>>
      [] s = "__proto__" -> <<95, 95, 112, 114, 111, 116, 111, 95, 95>>
      [] s = "hasOwnProperty" ->
            <<104, 97, 115, 79, 119, 110, 80, 114, 111, 112, 101, 114, 116, 121>>

\* The default comparison of Array.prototype.sort: by code units.
RECURSIVE UnitsLess(_, _)
UnitsLess(u, v) ==
    IF v = <<>> THEN FALSE
    ELSE IF u = <<>> THEN TRUE
    ELSE IF Head(u) # Head(v) THEN Head(u) < Head(v)
    ELSE UnitsLess(Tail(u), Tail(v))

StringLess(s, t) == UnitsLess(CodeUnits(s), CodeUnits(t))

RECURSIVE Insert(_, _)
Insert(x, sorted) ==
    IF sorted = <<>> THEN <<x>>
    ELSE IF StringLess(Head(sorted), x) THEN <<Head(sorted)>> \o Insert(x, Tail(sorted))
    ELSE <<x>> \o sorted

\* Array.prototype.sort() with no comparator.
RECURSIVE Sort(_)
Sort(seq) == IF seq = <<>> THEN <<>> ELSE Insert(Head(seq), Sort(Tail(seq)))

\* Object.keys(data): the own keys, in an enumeration order.  Every use sorts
\* the result, so the order picked here is an arbitrary one.
RECURSIVE ObjectKeys(_)
ObjectKeys(data) ==
    IF DOMAIN data = {} THEN <<>>
    ELSE LET k == CHOOSE k \in DOMAIN data : TRUE
         IN  <<k>> \o ObjectKeys(DeleteProperty(data, k))

\* data.hasOwnProperty(name): the method is looked up on data itself, so an
\* own property named 'hasOwnProperty' (a string) shadows the inherited
\* function and the call throws.
HasOwnPropertyCall(data, name) ==
    IF GetProperty(data, "hasOwnProperty") = Builtin("hasOwnProperty")
    THEN [threw |-> FALSE, value |-> name \in DOMAIN data]
    ELSE [threw |-> TRUE, value |-> FALSE]

\* --------------------------------------------- LoopBack: WalletIdentity model

\* findOne resolves with null when no record matches.
Null == [null |-> TRUE]

Keys == WalletIds \X EnrollmentIDs
KeyOf(r) == <<r.walletId, r.enrollmentID>>

\* The records a filter selects.  Only `where` restricts the records: a filter
\* whose conditions are not under `where` selects every record.
Matching(records, filter) ==
    IF "where" \in DOMAIN filter
    THEN {i \in DOMAIN records :
            /\ records[i].walletId = filter.where.walletId
            /\ records[i].enrollmentID = filter.where.enrollmentID}
    ELSE DOMAIN records

Min(S) == CHOOSE i \in S : \A j \in S : i <= j

\* WalletIdentity.findOne(filter): a fresh instance of the first selected
\* record in primary-key order, or null.
FindOne(records, filter) ==
    IF Matching(records, filter) = {} THEN Null
    ELSE LET i == Min(Matching(records, filter))
         IN  [id |-> i, walletId |-> records[i].walletId,
              enrollmentID |-> records[i].enrollmentID, data |-> records[i].data]

\* A save that merges: the stored data keeps its keys and takes the instance's.
SaveMerged(records, identity) ==
    [records EXCEPT ![identity.id] =
        [walletId |-> identity.walletId, enrollmentID |-> identity.enrollmentID,
         data |-> [n \in DOMAIN records[identity.id].data \cup DOMAIN identity.data |->
                    IF n \in DOMAIN identity.data THEN identity.data[n]
                    ELSE records[identity.id].data[n]]]]

\* A save that inserts: the instance becomes a further record.
SaveInserted(records, identity) ==
    Append(records, [walletId |-> identity.walletId,
                     enrollmentID |-> identity.enrollmentID, data |-> identity.data])

\* identity.save(): the record with the instance's id takes the instance's
\* properties, whatever the record holds by now.
Save(records, identity) ==
    [records EXCEPT ![identity.id] =
        [walletId |-> identity.walletId, enrollmentID |-> identity.enrollmentID,
         data |-> identity.data]]

\* ------------------------------------------------------------ LoopBackWallet

\* constructor(app, wallet, enrollmentID): the adapter is its fields; `app` is
\* the one application, whose WalletIdentity model is the variable `store`.
LoopBackWallet(wallet, enrollmentID) ==
    [wallet |-> wallet, enrollmentID |-> enrollmentID]

\* The adapters in use: two, differing in both fields.  Identifiers are only
\* ever compared for equality, so which two is of no consequence; the records
\* of the store range over every key.
Adapters == {LoopBackWallet([id |-> 1], "alice"), LoopBackWallet([id |-> 2], "bob")}
AdapterKey(this) == <<this.wallet.id, this.enrollmentID>>

\* findOne's argument in list, contains and remove: the conditions are the
\* filter itself.
PlainFilter(this) ==
    [walletId |-> this.wallet.id, enrollmentID |-> this.enrollmentID]
\* findOne's argument in get, add and update: the conditions are under `where`.
WhereFilter(this) ==
    [where |-> [walletId |-> this.wallet.id, enrollmentID |-> this.enrollmentID]]

listQuery(this) == PlainFilter(this)
containsQuery(this) == PlainFilter(this)
getQuery(this) == WhereFilter(this)
addQuery(this) == WhereFilter(this)
updateQuery(this) == WhereFilter(this)
removeQuery(this) == PlainFilter(this)

\* How a `then` callback ends: it returns a value, throws, or returns the
\* promise of identity.save() on the instance it changed.
Return(v) == [kind |-> "return", value |-> v]
Throw(e) == [kind |-> "throw", error |-> e]
SaveCall(changed) == [kind |-> "save", identity |-> changed]

\* Reading `identity.data` of null throws a TypeError.
listCallback(found) ==
    IF found = Null THEN Throw("TypeError")
    ELSE Return(Sort(ObjectKeys(found.data)))

containsCallback(found, name) ==
    IF found = Null THEN Throw("TypeError")
    ELSE IF HasOwnPropertyCall(found.data, name).threw THEN Throw("TypeError")
    ELSE Return(HasOwnPropertyCall(found.data, name).value)

\* A get that writes the record back after reading it.
getCallbackSaving(found, name) ==
    IF found = Null THEN Throw("TypeError")
    ELSE SaveCall(found)

getCallback(found, name) ==
    IF found = Null THEN Throw("TypeError")
    ELSE Return(GetProperty(found.data, name))

addCallback(found, name, value) ==
    IF found = Null THEN Throw("TypeError")
    ELSE SaveCall([found EXCEPT !.data = SetProperty(found.data, name, value)])

\* An update that insists on an existing credential.
updateCallbackStrict(found, name, value) ==
    IF found = Null THEN Throw("TypeError")
    ELSE IF name \notin DOMAIN found.data THEN Throw("Error")
    ELSE SaveCall([found EXCEPT !.data = SetProperty(found.data, name, value)])

updateCallback(found, name, value) ==
    IF found = Null THEN Throw("TypeError")
    ELSE SaveCall([found EXCEPT !.data = SetProperty(found.data, name, value)])

\* A remove that clears the whole wallet.
removeCallbackAll(found, name) ==
    IF found = Null THEN Throw("TypeError")
    ELSE SaveCall([found EXCEPT !.data = EmptyData])

removeCallback(found, name) ==
    IF found = Null THEN Throw("TypeError")
    ELSE SaveCall([found EXCEPT !.data = DeleteProperty(found.data, name)])

VARIABLES
    store,      \* app.models.WalletIdentity: the records, in primary-key order
    pc,         \* per call slot: "idle", "findOne" or "save"
    call,       \* per call slot: the call it runs or has last run
    identity,   \* per call slot: the instance the callback got (and changed)
    ret,        \* per call slot: how the call's promise has settled
    fetched,    \* history: per call slot, the data findOne delivered
    lastSaver,  \* history: the slot whose save was the last to resolve, or 0
    watch,      \* history: the credential name whose mutators are recorded
    last,       \* history: last mutator completed on watch through WatchedKey
    addsOnly,   \* history: no update or remove has completed through WatchedKey
    calls,      \* number of calls made so far, where calls are counted
    storeCalls, \* history: per call slot, the store calls of its call, in order
    singleWriter \* history: no mutator was called while another of its key ran

vars == <<store, pc, call, identity, ret, fetched, lastSaver, watch, last,
          addsOnly, calls, storeCalls, singleWriter>>

\* The key whose adapter's history is recorded.
WatchedKey == <<1, "alice">>

NoCall == [op |-> "none"]
Pending == [status |-> "pending"]
Resolved(v) == [status |-> "resolved", value |-> v]
Rejected(e) == [status |-> "rejected", error |-> e]
NoMutator == [kind |-> "none"]
\* add, update and remove end in a save.
Mutator(c) == c.op \in {"add", "update", "remove"}
\* A call to the store and how it has ended: "pending", "ok" or its error.
StoreCall(method, outcome) == [call |-> method, outcome |-> outcome]

\* The stores of at most MaxRecords records, no two with the same key, each
\* with empty data (what an add/remove history fills is reached from there).
RECURSIVE StoresOfLength(_)
StoresOfLength(n) ==
    IF n = 0 THEN {<<>>}
    ELSE {Append(sk[1], [walletId |-> sk[2][1], enrollmentID |-> sk[2][2],
                         data |-> EmptyData]) :
            sk \in {sk \in StoresOfLength(n - 1) \X Keys :
                        \A i \in DOMAIN sk[1] : KeyOf(sk[1][i]) # sk[2]}}

InitialStores == UNION {StoresOfLength(n) : n \in 0 .. MaxRecords}

\* The state after the adapters are constructed: nothing called yet.
Start ==
    /\ store \in InitialStores
    /\ pc = [p \in Procs |-> "idle"]
    /\ call = [p \in Procs |-> NoCall]
    /\ identity = [p \in Procs |-> Null]
    /\ ret = [p \in Procs |-> Pending]
    /\ fetched = [p \in Procs |-> EmptyData]
    /\ lastSaver = 0
    /\ last = NoMutator
    /\ addsOnly = TRUE
    /\ calls = 0
    /\ storeCalls = [p \in Procs |-> <<>>]
    /\ singleWriter = TRUE

\* Where calls overlap, the history of one name is recorded.
Init == Start /\ watch = "a"

\* Where calls are made one at a time, the history of any one name is.
InitSeq == Start /\ watch \in Names

\* A method is called on an adapter: the filter is built and findOne issued.
\* `counted` tells whether the call counts against MaxCalls.
Invoke(p, counted, c) ==
    /\ IF counted THEN calls < MaxCalls /\ calls' = calls + 1
       ELSE UNCHANGED calls
    /\ pc' = [pc EXCEPT ![p] = "findOne"]
    /\ call' = [call EXCEPT ![p] = c]
    /\ identity' = [identity EXCEPT ![p] = Null]
    /\ ret' = [ret EXCEPT ![p] = Pending]
    /\ fetched' = [fetched EXCEPT ![p] = EmptyData]
    /\ lastSaver' = IF lastSaver = p THEN 0 ELSE lastSaver
    /\ storeCalls' = [storeCalls EXCEPT ![p] = <<StoreCall("findOne", "pending")>>]
    /\ singleWriter' =
            (singleWriter /\ ~(Mutator(c) /\ \E q \in Procs \ {p} :
                                    /\ pc[q] # "idle" /\ Mutator(call[q])
                                    /\ AdapterKey(call[q].this) = AdapterKey(c.this)))
    /\ UNCHANGED <<store, watch, last, addsOnly>>

list(p, this, counted) ==
    /\ pc[p] = "idle"
    /\ Invoke(p, counted, [op |-> "list", this |-> this, filter |-> listQuery(this)])

contains(p, this, name, counted) ==
    /\ pc[p] = "idle"
    /\ Invoke(p, counted, [op |-> "contains", this |-> this, name |-> name,
               filter |-> containsQuery(this)])

get(p, this, name, counted) ==
    /\ pc[p] = "idle"
    /\ Invoke(p, counted, [op |-> "get", this |-> this, name |-> name,
               filter |-> getQuery(this)])

add(p, this, name, value, counted) ==
    /\ pc[p] = "idle"
    /\ Invoke(p, counted, [op |-> "add", this |-> this, name |-> name, value |-> value,
               filter |-> addQuery(this)])

update(p, this, name, value, counted) ==
    /\ pc[p] = "idle"
    /\ Invoke(p, counted, [op |-> "update", this |-> this, name |-> name, value |-> value,
               filter |-> updateQuery(this)])

remove(p, this, name, counted) ==
    /\ pc[p] = "idle"
    /\ Invoke(p, counted, [op |-> "remove", this |-> this, name |-> name,
               filter |-> removeQuery(this)])

\* findOne has resolved with `found` and the callback has run, ending as r:
\* the call's promise settles, or waits for the save the callback started.
Then(p, found, r) ==
    /\ pc' = [pc EXCEPT ![p] = IF r.kind = "save" THEN "save" ELSE "idle"]
    /\ identity' = [identity EXCEPT ![p] = IF r.kind = "save" THEN r.identity ELSE found]
    /\ ret' = [ret EXCEPT ![p] =
                 CASE r.kind = "return" -> Resolved(r.value)
                   [] r.kind = "throw" -> Rejected(r.error)
                   [] r.kind = "save" -> Pending]
    /\ fetched' = [fetched EXCEPT ![p] = IF found = Null THEN EmptyData ELSE found.data]
    /\ storeCalls' = [storeCalls EXCEPT ![p] =
                        IF r.kind = "save"
                        THEN <<StoreCall("findOne", "ok"), StoreCall("save", "pending")>>
                        ELSE <<StoreCall("findOne", "ok")>>]
    /\ UNCHANGED <<store, call, lastSaver, watch, last, addsOnly, calls, singleWriter>>

listThen(p) ==
    /\ pc[p] = "findOne" /\ call[p].op = "list"
    /\ LET found == FindOne(store, call[p].filter)
       IN  Then(p, found, listCallback(found))

containsThen(p) ==
    /\ pc[p] = "findOne" /\ call[p].op = "contains"
    /\ LET found == FindOne(store, call[p].filter)
       IN  Then(p, found, containsCallback(found, call[p].name))

getThen(p) ==
    /\ pc[p] = "findOne" /\ call[p].op = "get"
    /\ LET found == FindOne(store, call[p].filter)
       IN  Then(p, found, getCallback(found, call[p].name))

addThen(p) ==
    /\ pc[p] = "findOne" /\ call[p].op = "add"
    /\ LET found == FindOne(store, call[p].filter)
       IN  Then(p, found, addCallback(found, call[p].name, call[p].value))

updateThen(p) ==
    /\ pc[p] = "findOne" /\ call[p].op = "update"
    /\ LET found == FindOne(store, call[p].filter)
       IN  Then(p, found, updateCallback(found, call[p].name, call[p].value))

removeThen(p) ==
    /\ pc[p] = "findOne" /\ call[p].op = "remove"
    /\ LET found == FindOne(store, call[p].filter)
       IN  Then(p, found, removeCallback(found, call[p].name))

\* The data source fails the query: the promise rejects with its error.
findOneFails(p) ==
    /\ pc[p] = "findOne"
    /\ pc' = [pc EXCEPT ![p] = "idle"]
    /\ ret' = [ret EXCEPT ![p] = Rejected("StoreError")]
    /\ storeCalls' = [storeCalls EXCEPT ![p] = <<StoreCall("findOne", "StoreError")>>]
    /\ UNCHANGED <<store, call, identity, fetched, lastSaver, watch, last, addsOnly, calls,
                   singleWriter>>

\* What a completed mutator leaves in the recorded history.
Recorded(c) ==
    IF c.op = "remove" THEN [kind |-> "remove"]
    ELSE [kind |-> c.op, value |-> c.value]

\* save() resolves: the record is written and the mutator's promise resolves.
saveResolves(p) ==
    /\ pc[p] = "save"
    /\ store' = Save(store, identity[p])
    /\ pc' = [pc EXCEPT ![p] = "idle"]
    /\ ret' = [ret EXCEPT ![p] = Resolved(identity[p])]
    /\ lastSaver' = p
    /\ last' = IF AdapterKey(call[p].this) = WatchedKey /\ call[p].name = watch
               THEN Recorded(call[p]) ELSE last
    /\ addsOnly' = (addsOnly /\ ~(AdapterKey(call[p].this) = WatchedKey
                                   /\ call[p].op # "add"))
    /\ storeCalls' = [storeCalls EXCEPT ![p][2] = StoreCall("save", "ok")]
    /\ UNCHANGED <<call, identity, fetched, watch, calls, singleWriter>>

\* A failed save that is caught and reported as success.
saveFailsSwallowed(p) ==
    /\ pc[p] = "save"
    /\ pc' = [pc EXCEPT ![p] = "idle"]
    /\ ret' = [ret EXCEPT ![p] = Resolved(identity[p])]
    /\ storeCalls' = [storeCalls EXCEPT ![p][2] = StoreCall("save", "StoreError")]
    /\ UNCHANGED <<store, call, identity, fetched, lastSaver, watch, last, addsOnly, calls,
                   singleWriter>>

\* The data source fails the save: the promise rejects, nothing is written.
saveFails(p) ==
    /\ pc[p] = "save"
    /\ pc' = [pc EXCEPT ![p] = "idle"]
    /\ ret' = [ret EXCEPT ![p] = Rejected("StoreError")]
    /\ storeCalls' = [storeCalls EXCEPT ![p][2] = StoreCall("save", "StoreError")]
    /\ UNCHANGED <<store, call, identity, fetched, lastSaver, watch, last, addsOnly, calls,
                   singleWriter>>

Step(p, counted) ==
    \/ \E this \in Adapters : list(p, this, counted)
    \/ \E this \in Adapters, name \in Names : contains(p, this, name, counted)
    \/ \E this \in Adapters, name \in Names : get(p, this, name, counted)
    \/ \E this \in Adapters, name \in Names, value \in Values :
            add(p, this, name, value, counted)
    \/ \E this \in Adapters, name \in Names, value \in Values :
            update(p, this, name, value, counted)
    \/ \E this \in Adapters, name \in Names : remove(p, this, name, counted)
    \/ listThen(p)
    \/ containsThen(p)
    \/ getThen(p)
    \/ addThen(p)
    \/ updateThen(p)
    \/ removeThen(p)
    \/ findOneFails(p)
    \/ saveResolves(p)
    \/ saveFails(p)

\* Calls interleave freely; at most MaxCalls of them are made.
Next == \E p \in Procs : Step(p, TRUE)
Spec == Init /\ [][Next]_vars

\* One call at a time, any number of them: a caller that awaits each promise
\* before its next call.
NextSeq == Step(1, FALSE)
SpecSeq == InitSeq /\ [][NextSeq]_vars

\* ---------------------------------------------------- the methods, end to end

\* add(name, value) on a store that answers both calls: the store calls made,
\* how the promise settles, and the records left.
addRun(records, this, name, value) ==
    LET found == FindOne(records, addQuery(this))
        r == addCallback(found, name, value)
        query == [call |-> "findOne", filter |-> addQuery(this)]
    IN  IF r.kind = "save"
        THEN [storeCalls |-> <<query, [call |-> "save", identity |-> r.identity]>>,
              outcome |-> Resolved(r.identity),
              records |-> Save(records, r.identity)]
        ELSE [storeCalls |-> <<query>>, outcome |-> Rejected(r.error),
              records |-> records]

\* update(name, value), likewise.
updateRun(records, this, name, value) ==
    LET found == FindOne(records, updateQuery(this))
        r == updateCallback(found, name, value)
        query == [call |-> "findOne", filter |-> updateQuery(this)]
    IN  IF r.kind = "save"
        THEN [storeCalls |-> <<query, [call |-> "save", identity |-> r.identity]>>,
              outcome |-> Resolved(r.identity),
              records |-> Save(records, r.identity)]
        ELSE [storeCalls |-> <<query>>, outcome |-> Rejected(r.error),
              records |-> records]

\* ------------------------------------------------------------------- claims

\* The store holds a record for key k.
HasRecord(k) == \E i \in DOMAIN store : KeyOf(store[i]) = k
\* The call of slot p has settled.
Settled(p) == pc[p] = "idle" /\ call[p].op # "none"
\* Its promise resolved / rejected.
Fulfilled(p) == Settled(p) /\ ret[p].status = "resolved"
Failed(p) == Settled(p) /\ ret[p].status = "rejected"
\* It was made on the adapter of WatchedKey.
OnWatched(p) == AdapterKey(call[p].this) = WatchedKey
\* The plainest setting of a claim: WatchedKey has its record, and the
\* recorded name is not one a plain object inherits.
Ordinary ==
    /\ HasRecord(WatchedKey)
    /\ watch \notin ObjectPrototypeKeys \cup {"__proto__"}
Occurrences(seq, x) == Cardinality({i \in DOMAIN seq : seq[i] = x})
Ascending(seq) == \A i \in 1 .. Len(seq) - 1 : StringLess(seq[i], seq[i + 1])

\* C1: every operation of an adapter works on the record whose walletId and
\* enrollmentID are the adapter's: the instance a call has fetched (the one a
\* reader reads and a mutator changes and saves) carries the adapter's key.
C1_LookupByCompositeKey ==
    \A p \in Procs :
        (call[p].op # "none" /\ identity[p] # Null)
            => KeyOf(identity[p]) = AdapterKey(call[p].this)

\* C2: calls made one at a time, data empty at first, only adds completed on
\* the adapter: list() on it resolves with the added names, each once and no
\* other (a name is listed exactly when it was added), in ascending order.
C2_ListReturnsAddedNames ==
    \A p \in Procs :
        (Fulfilled(p) /\ call[p].op = "list" /\ OnWatched(p) /\ addsOnly /\ Ordinary)
            => /\ Ascending(ret[p].value)
               /\ Occurrences(ret[p].value, watch) = IF last.kind = "add" THEN 1 ELSE 0

\* C3: calls made one at a time: contains(name) resolves with true exactly when
\* the last mutator completed on name through the adapter's key was an add or
\* an update, and with false when it was a remove or there was none.
C3_ContainsIffAddedNotRemoved ==
    \A p \in Procs :
        (Fulfilled(p) /\ call[p].op = "contains" /\ OnWatched(p) /\ call[p].name = watch
            /\ Ordinary)
            => ret[p].value = (last.kind \in {"add", "update"})

\* C4: calls made one at a time: once remove(name) has completed, get(name) on
\* the same key resolves with the absent marker, and a further remove(name)
\* saves data equal to the data the record already holds.
C4_RemoveThenGetAbsent ==
    \A p \in Procs :
        (call[p].op \in {"get", "remove"} /\ OnWatched(p) /\ call[p].name = watch
            /\ last.kind = "remove" /\ Ordinary)
            => /\ (Fulfilled(p) /\ call[p].op = "get") => ret[p].value = Undefined
               /\ (pc[p] = "save" /\ call[p].op = "remove")
                     => identity[p].data = store[identity[p].id].data

\* C5: with no record for the adapter's key in the store, no call of the
\* adapter resolves and none reaches a save.
C5_NoRecordEveryCallFails ==
    \A p \in Procs :
        (call[p].op # "none" /\ ~HasRecord(AdapterKey(call[p].this)))
            => /\ pc[p] # "save"
               /\ ret[p].status # "resolved"

\* C6: calls made one at a time: when the last mutator completed on name is
\* add(name, v), get(name) resolves with v, list() holds name once, and an add
\* of name is rejected by nothing but a failure of the store.
C6_AddIsUpsert ==
    \A p \in Procs :
        (Settled(p) /\ OnWatched(p) /\ last.kind = "add" /\ Ordinary)
            => /\ (Fulfilled(p) /\ call[p].op = "get" /\ call[p].name = watch)
                     => ret[p].value = last.value
               /\ (Fulfilled(p) /\ call[p].op = "list")
                     => Occurrences(ret[p].value, watch) = 1
               /\ (Failed(p) /\ call[p].op = "add" /\ call[p].name = watch)
                     => ret[p].error = "StoreError"

\* C7: calls made one at a time, each on an adapter constructed for the call:
\* after add(name, value) has completed for a key, get(name) on an adapter
\* constructed for that key resolves with value.
C7_RoundTripThroughFreshAdapter ==
    \A p \in Procs, fresh \in {LoopBackWallet([id |-> WatchedKey[1]], WatchedKey[2])} :
        (Fulfilled(p) /\ call[p].op = "get" /\ call[p].this = fresh
            /\ call[p].name = watch /\ last.kind = "add")
            => ret[p].value = last.value

\* C8: from every store the program reaches, for every adapter, name and
\* value, update(name, value) and add(name, value) make the same store calls,
\* settle the same way and leave the same records.
C8_UpdateEqualsAdd ==
    \A this \in Adapters, name \in Names, value \in Values :
        updateRun(store, this, name, value) = addRun(store, this, name, value)

\* C8 witness: an update has completed on a name that was not there, where an
\* insert-only add and a modify-only update would differ.
C8_UpdateOfAbsentName ==
    \E p \in Procs :
        /\ Fulfilled(p) /\ call[p].op = "update"
        /\ call[p].name \notin DOMAIN fetched[p]
        /\ call[p].name \in DOMAIN store[identity[p].id].data

\* The data `after` is the data `before` with the one change of call c.
OwnChangeOnly(c, before, after) ==
    /\ \A k \in (DOMAIN before \cup DOMAIN after) \ {c.name} :
            /\ k \in DOMAIN before /\ k \in DOMAIN after
            /\ after[k] = before[k]
    /\ IF c.op = "remove" \/ c.name = "__proto__" THEN c.name \notin DOMAIN after
       ELSE c.name \in DOMAIN after /\ after[c.name] = c.value

\* C9: persist is last-writer-wins: the record a save has written last holds
\* the data its saver fetched with that saver's one change, whatever another
\* mutator saved between the fetch and the save.
C9_LastWriterWins ==
    lastSaver # 0
        => /\ store[identity[lastSaver].id].data = identity[lastSaver].data
           /\ OwnChangeOnly(call[lastSaver], fetched[lastSaver],
                            store[identity[lastSaver].id].data)

\* C9 witness: two adds of different names through one key have both resolved,
\* and the record lacks the name of the one that saved first.
C9_LostUpdate ==
    \E p, q \in Procs :
        /\ p # q /\ lastSaver = q
        /\ Fulfilled(p) /\ Fulfilled(q)
        /\ call[p].op = "add" /\ call[q].op = "add"
        /\ call[p].this = call[q].this
        /\ identity[p].id = identity[q].id
        /\ call[p].name # "__proto__" /\ call[p].name # call[q].name
        /\ call[p].name \notin DOMAIN store[identity[q].id].data
        /\ call[q].name \in DOMAIN store[identity[q].id].data

\* C10: get(name) resolves with the stored value when name is an own key of
\* the fetched data and with the absent marker when it is not, and is
\* rejected by nothing but a missing record or a failure of the store.
C10_GetAbsentOrStored ==
    \A p \in Procs :
        (Settled(p) /\ call[p].op = "get")
            => /\ (Fulfilled(p) /\ call[p].name \in DOMAIN fetched[p])
                     => ret[p].value = fetched[p][call[p].name]
               /\ (Fulfilled(p) /\ call[p].name \notin DOMAIN fetched[p])
                     => ret[p].value = Undefined
               /\ (Failed(p) /\ HasRecord(AdapterKey(call[p].this)))
                     => ret[p].error = "StoreError"

\* C11: contains(name), once the record is fetched, never fails and resolves
\* with a boolean that is true exactly when name is an own key of the fetched
\* data, whatever keys the data holds.
C11_ContainsTestsOwnKey ==
    \A p \in Procs :
        (Settled(p) /\ call[p].op = "contains" /\ identity[p] # Null)
            => /\ Fulfilled(p)
               /\ ret[p].value = (call[p].name \in DOMAIN fetched[p])

\* The positions of the calls to `method` among the store calls of slot p.
CallsTo(p, method) == {i \in DOMAIN storeCalls[p] : storeCalls[p][i].call = method}
\* The store call at position i of slot p has failed.
StoreFailed(p, i) == storeCalls[p][i].outcome \notin {"pending", "ok"}

\* C12: a call makes at most one findOne and at most one save, the save only
\* as a mutator and after its findOne succeeded; when a store call fails it is
\* the call's last one (no retry, no save after a failed findOne) and the
\* call's promise rejects with the store's error, never resolves.
C12_StoreFailuresPassThrough ==
    \A p \in Procs :
        /\ Cardinality(CallsTo(p, "findOne")) <= 1
        /\ Cardinality(CallsTo(p, "save")) <= 1
        /\ \A i \in CallsTo(p, "save") :
                /\ Mutator(call[p])
                /\ \E j \in CallsTo(p, "findOne") : j < i /\ storeCalls[p][j].outcome = "ok"
        /\ \A i \in DOMAIN storeCalls[p] :
                StoreFailed(p, i)
                    => /\ i = Len(storeCalls[p])
                       /\ Failed(p)
                       /\ ret[p].error = storeCalls[p][i].outcome

\* C12 witness: one call's findOne has failed and another call's save has.
C12_FetchFailedAndSaveFailed ==
    \E p, q \in Procs :
        /\ Failed(p) /\ CallsTo(p, "save") = {} /\ StoreFailed(p, 1)
        /\ Failed(q) /\ CallsTo(q, "save") = {2} /\ StoreFailed(q, 2)

\* list, contains and get end in a return.
Reader(c) == c.op \in {"list", "contains", "get"}

\* C13: a call of get, contains or list makes exactly one findOne and no save,
\* and no step of such a call changes any record of the store.
C13_ReadsAreReadOnly ==
    /\ [](\A p \in Procs :
            Reader(call[p]) => /\ CallsTo(p, "findOne") = {1}
                               /\ CallsTo(p, "save") = {})
    /\ [][\A p \in Procs :
            (Reader(call'[p]) /\ <<pc[p], call[p], ret[p]>> # <<pc'[p], call'[p], ret'[p]>>)
                => store' = store]_vars

\* C13 witness: a reader has resolved on a record that holds credentials.
C13_ReadOfFilledRecord ==
    \E p \in Procs : Fulfilled(p) /\ Reader(call[p]) /\ DOMAIN fetched[p] # {}

\* The (walletId, enrollmentID) pairs that have a record.
RecordKeys(records) == {KeyOf(records[i]) : i \in DOMAIN records}

\* C14: no step of any call, however the calls of the adapters interleave,
\* adds or removes a record or changes the pair of one: the pairs that have a
\* record stay those of the start, with one record each.
C14_NoRecordCreatedOrDeleted ==
    /\ [](Cardinality(RecordKeys(store)) = Len(store))
    /\ [][/\ Len(store') = Len(store)
          /\ RecordKeys(store') = RecordKeys(store)
          /\ \A i \in DOMAIN store : KeyOf(store'[i]) = KeyOf(store[i])]_vars

\* C14 witness: an add and a remove have both been saved, by calls that
\* overlapped or not, in a store that holds as many records as it can.
C14_AddAndRemoveSaved ==
    \E p, q \in Procs :
        /\ Fulfilled(p) /\ call[p].op = "add"
        /\ Fulfilled(q) /\ call[q].op = "remove"
        /\ Len(store) = MaxRecords

\* C15: when the save of a mutator settles on a record that nothing has
\* written since the mutator fetched it, every name other than the mutator's
\* own is, in every record, present or absent as before and with the value it
\* had.
C15_MutatorChangesOnlyOwnKey ==
    [][\A p \in Procs :
        (pc[p] = "save" /\ pc'[p] = "idle" /\ store[identity[p].id].data = fetched[p])
            => \A i \in DOMAIN store :
                 \A k \in (DOMAIN store[i].data \cup DOMAIN store'[i].data) \ {call[p].name} :
                    /\ k \in DOMAIN store[i].data
                    /\ k \in DOMAIN store'[i].data
                    /\ store'[i].data[k] = store[i].data[k]]_vars

\* C15 witness: a mutator has saved a record that held, and holds, a
\* credential of another name.
C15_SavedBesideAnotherName ==
    \E p \in Procs :
        /\ Fulfilled(p) /\ Mutator(call[p]) /\ lastSaver = p
        /\ \E k \in DOMAIN fetched[p] :
                k # call[p].name /\ k \in DOMAIN store[identity[p].id].data

\* C16: as long as no mutator is called while another mutator of the same
\* (walletId, enrollmentID) is in flight, every save that resolves leaves the
\* record as the data persisted just before it with the saver's one change:
\* whatever completed earlier is kept, and the persisted data is the mutators
\* applied in completion order.
C16_SingleWriterNothingLost ==
    [][\A q \in Procs :
        (singleWriter /\ pc[q] = "save" /\ pc'[q] = "idle" /\ ret'[q].status = "resolved")
            => OwnChangeOnly(call[q], store[identity[q].id].data,
                             store'[identity[q].id].data)]_vars

====
